---- MODULE Spec2Model ----
(***************************************************************************)
(* wordsmith.py: homophonous phrases.  The module-level state is the       *)
(* pronunciation table CMPD and its inversion CMPD_INVERTED; a search      *)
(* (wordsmith) looks the words up, expands the phrase pronunciations,      *)
(* partitions each of them and turns every partition back into phrases.    *)
(***************************************************************************)
EXTENDS Integers, Sequences, FiniteSets, TLC

(* ------------------------------ bounds --------------------------------- *)

\* Most phonemes the whole table holds, over all pronunciations of all words.
MaxTablePhonemes == 3

\* Longest tokenized phrase handed to a search.
MaxWords == 2

\* Most phonemes the table holds when searches are repeated.
MaxRepeatTablePhonemes == 1

\* The words a phrase can be made of, in the order the table was filled.
Vocabulary == <<"i", "ice", "scream">>

\* The phoneme symbols.
Phonemes == {"AY1", "S"}

(* ----------------------------- helpers --------------------------------- *)

Range(s) == {s[i] : i \in DOMAIN s}

RECURSIVE ConcatRange(_, _, _)
\* ss[lo] \o ... \o ss[hi], by halves.
ConcatRange(ss, lo, hi) ==
    IF lo > hi THEN <<>>
    ELSE IF lo = hi THEN ss[lo]
    ELSE LET mid == (lo + hi) \div 2
         IN  ConcatRange(ss, lo, mid) \o ConcatRange(ss, mid + 1, hi)

\* The concatenation of a sequence of sequences.
Concat(ss) == ConcatRange(ss, 1, Len(ss))

RECURSIVE SumRange(_, _, _)
SumRange(ns, lo, hi) ==
    IF lo > hi THEN 0
    ELSE IF lo = hi THEN ns[lo]
    ELSE LET mid == (lo + hi) \div 2
         IN  SumRange(ns, lo, mid) + SumRange(ns, mid + 1, hi)

\* The sum of a sequence of numbers.
Sum(ns) == SumRange(ns, 1, Len(ns))

RECURSIVE Product(_)
\* The product of a sequence of numbers.
Product(ns) == IF ns = <<>> THEN 1 ELSE Head(ns) * Product(Tail(ns))

\* How many times x occurs in the sequence s.
Count(x, s) == Cardinality({i \in DOMAIN s : s[i] = x})

(* ----------------------- the pronunciation table ----------------------- *)

\* A pronunciation: a non-empty sequence of at most longest phoneme symbols.
WordPronunciation(longest) == UNION {[1..n -> Phonemes] : n \in 1..longest}

RECURSIVE Entries(_)
\* A table entry: the non-empty list of a word's pronunciations, holding at
\* most budget phonemes.
Entries(budget) ==
    UNION {{<<p>>} \cup {<<p>> \o e : e \in Entries(budget - Len(p))} :
           p \in WordPronunciation(budget)}

Weight(entry) == Sum([i \in DOMAIN entry |-> Len(entry[i])])

RECURSIVE TablesFrom(_, _)
\* The tables over the words Vocabulary[i..], holding at most budget phonemes.
TablesFrom(i, budget) ==
    IF i > Len(Vocabulary) THEN {<<>>}
    ELSE TablesFrom(i + 1, budget) \cup
         UNION {{(Vocabulary[i] :> e) @@ t : t \in TablesFrom(i + 1, budget - Weight(e))} :
                e \in Entries(budget)}

\* cmudict.dict(): word -> list of pronunciations.
Tables == TablesFrom(1, MaxTablePhonemes)

\* CMPD.items(): the words of the table in insertion order.
Keys(table) == SelectSeq(Vocabulary, LAMBDA w : w \in DOMAIN table)

(* ------------------------------ invert_CMPD ---------------------------- *)

\* inverted.get(pronunciation, [])
Get(inverted, pronunciation) ==
    IF pronunciation \in DOMAIN inverted THEN inverted[pronunciation] ELSE <<>>

\* inverted[pronunciation] = value
SetItem(inverted, pronunciation, value) ==
    (pronunciation :> value) @@ inverted

\* The wrong body: the bucket is replaced instead of appended to.
invert_step_overwrite(inverted, word, pronunciation) ==
    SetItem(inverted, pronunciation, <<word>>)

\* The body of the inner loop: fetch or create the bucket, append the word.
invert_step(inverted, word, pronunciation) ==
    SetItem(inverted, pronunciation, Append(Get(inverted, pronunciation), word))

RECURSIVE invert_word(_, _, _)
\* for pronunciation in its_pronunciations: ...
invert_word(inverted, word, its_pronunciations) ==
    IF its_pronunciations = <<>> THEN inverted
    ELSE invert_word(invert_step(inverted, word, Head(its_pronunciations)),
                     word, Tail(its_pronunciations))

RECURSIVE invert_items(_, _, _)
\* for word, its_pronunciations in CMPD.items(): ...
invert_items(inverted, table, keys) ==
    IF keys = <<>> THEN inverted
    ELSE invert_items(invert_word(inverted, Head(keys), table[Head(keys)]),
                      table, Tail(keys))

invert_CMPD(table) == invert_items(<<>>, table, Keys(table))

(* ------------------------ get_word_pronunciations ---------------------- *)

\* What a call gives its caller: a value, or a raised KeyError.
Returns(value) == [raised |-> FALSE, value |-> value]

KeyError == [raised |-> TRUE, value |-> <<>>]

\* The wrong body: a missing word reads as a word without pronunciations.
get_pronunciation_default(word, table) ==
    IF word \in DOMAIN table THEN Returns(table[word]) ELSE Returns(<<>>)

\* CMPD[word], the KeyError of a missing word re-raised.
get_pronunciation(word, table) ==
    IF word \in DOMAIN table THEN Returns(table[word]) ELSE KeyError

RECURSIVE map_get_pronunciation(_, _)
\* list(map(get_pronunciation, words)): the first KeyError ends the map.
map_get_pronunciation(ws, table) ==
    IF ws = <<>> THEN Returns(<<>>)
    ELSE LET first == get_pronunciation(Head(ws), table)
         IN  IF first.raised THEN KeyError
             ELSE LET rest == map_get_pronunciation(Tail(ws), table)
                  IN  IF rest.raised THEN KeyError
                      ELSE Returns(<<first.value>> \o rest.value)

get_word_pronunciations(ws, table) == map_get_pronunciation(ws, table)

(* ----------------------- get_phrase_pronunciations --------------------- *)

\* The wrong body: the first element of every list only (no cross product).
product_first(lists) ==
    IF \E i \in DOMAIN lists : lists[i] = <<>> THEN <<>>
    ELSE <<[i \in DOMAIN lists |-> lists[i][1]]>>

RECURSIVE product(_)
\* itertools.product(*lists): one element of every list, the last list
\* varying fastest.
product(lists) ==
    IF lists = <<>> THEN << <<>> >>
    ELSE LET rest == product(Tail(lists))
         IN  Concat([i \in 1..Len(Head(lists)) |->
                       [j \in 1..Len(rest) |-> <<Head(lists)[i]>> \o rest[j]]])

\* The wrong body: the phonemes of the last word of the combination only.
flatten_combo_last(combo) ==
    IF combo = <<>> THEN <<>> ELSE combo[Len(combo)]

\* [phoneme for word in combo for phoneme in word]
flatten_combo(combo) == Concat(combo)

get_phrase_pronunciations(wps) ==
    LET combos == product(wps)
    IN  [c \in 1..Len(combos) |-> flatten_combo(combos[c])]

(* ------------------------------ partitions ----------------------------- *)

\* range(1, n): empty when n <= 1.
range1(n) == IF n <= 1 THEN <<>> ELSE [i \in 1..(n - 1) |-> i]

RECURSIVE combinations(_, _)
\* itertools.combinations(s, r): the r-element subsequences of s, in
\* lexicographic order of positions.
combinations(s, r) ==
    IF r = 0 THEN << <<>> >>
    ELSE IF Len(s) < r THEN <<>>
    ELSE LET with == combinations(Tail(s), r - 1)
         IN  [j \in 1..Len(with) |-> <<Head(s)>> \o with[j]]
             \o combinations(Tail(s), r)

\* The wrong body: the empty combination is left out.
powerset_nonempty(s) == Concat([r \in 1..Len(s) |-> combinations(s, r)])

\* more_itertools.powerset(s): the combinations of every size 0..len(s).
powerset(s) == Concat([r \in 1..(Len(s) + 1) |-> combinations(s, r - 1)])

\* The wrong body: the cut after the first symbol is never made.
partitions_skip_first_cut(sequence) ==
    LET n == Len(sequence)
        cuts == powerset(SelectSeq(range1(n), LAMBDA c : c # 1))
    IN  [k \in 1..Len(cuts) |->
           LET starts == <<0>> \o cuts[k]
               ends == cuts[k] \o <<n>>
           IN  [b \in 1..Len(starts) |-> SubSeq(sequence, starts[b] + 1, ends[b])]]

\* more_itertools.partitions(sequence): for every set of cut positions in
\* 1..n-1, the slices sequence[i:j] between consecutive cuts.
partitions(sequence) ==
    LET n == Len(sequence)
        cuts == powerset(range1(n))
    IN  [k \in 1..Len(cuts) |->
           LET starts == <<0>> \o cuts[k]
               ends == cuts[k] \o <<n>>
           IN  [b \in 1..Len(starts) |-> SubSeq(sequence, starts[b] + 1, ends[b])]]

(* ---------------------------- part_to_phrases -------------------------- *)

RECURSIVE join(_)
\* ' '.join(phrase)
join(ws) ==
    IF ws = <<>> THEN ""
    ELSE IF Len(ws) = 1 THEN ws[1]
    ELSE ws[1] \o " " \o join(Tail(ws))

RECURSIVE lookup_blocks(_, _)
\* The loop over the blocks of a partition: CMPD_INVERTED[tuple(word)] of
\* every block, the KeyError of a missing block re-raised.
lookup_blocks(partition, inverted) ==
    IF partition = <<>> THEN Returns(<<>>)
    ELSE IF Head(partition) \notin DOMAIN inverted THEN KeyError
    ELSE LET rest == lookup_blocks(Tail(partition), inverted)
         IN  IF rest.raised THEN KeyError
             ELSE Returns(<<inverted[Head(partition)]>> \o rest.value)

\* The wrong body: only the first word of every bucket is used.
part_to_phrases_first_word(partition, inverted) ==
    LET found == lookup_blocks(partition, inverted)
    IN  IF found.raised THEN KeyError
        ELSE Returns(<<join([b \in 1..Len(found.value) |-> found.value[b][1]])>>)

part_to_phrases(partition, inverted) ==
    LET found == lookup_blocks(partition, inverted)
    IN  IF found.raised THEN KeyError
        ELSE LET combos == product(found.value)
             IN  Returns([c \in 1..Len(combos) |-> join(combos[c])])

(* ------------------------------ get_phrases ---------------------------- *)

\* One pass of the inner loop: what phrases.extend(part_to_phrases(part))
\* appends, nothing when the KeyError is passed on.
extended_by(part, inverted) ==
    LET got == part_to_phrases(part, inverted)
    IN  IF got.raised THEN <<>> ELSE got.value

\* The wrong body: the KeyError of a partition ends the loop over the
\* partitions (the try around the loop instead of inside it).
for_part_abort(phrases, parts, inverted) ==
    LET raising == {k \in DOMAIN parts : part_to_phrases(parts[k], inverted).raised}
        last == IF raising = {} THEN Len(parts)
                ELSE (CHOOSE k \in raising : \A j \in raising : k <= j) - 1
    IN  phrases \o Concat([k \in 1..last |-> extended_by(parts[k], inverted)])

\* The wrong body: phrases is assigned the phrases of the partition instead of
\* extended by them.
for_part_assign(phrases, parts, inverted) ==
    LET found == {k \in DOMAIN parts : ~part_to_phrases(parts[k], inverted).raised}
    IN  IF found = {} THEN phrases
        ELSE extended_by(parts[CHOOSE k \in found : \A j \in found : j <= k], inverted)

\* for part in partitions(pronunciation): every pass extends phrases, in order.
for_part(phrases, parts, inverted) ==
    phrases \o Concat([k \in DOMAIN parts |-> extended_by(parts[k], inverted)])

(* ------------------------------- state --------------------------------- *)

VARIABLES
    CMPD,                   \* the pronunciation table (module level)
    CMPD_INVERTED,          \* pronunciation -> words (module level)
    pc,                     \* where the running search is
    words,                  \* wordsmith: the tokenized phrase
    word_pronunciations,    \* wordsmith: what get_word_pronunciations returned
    phrase_pronunciations,  \* wordsmith: what get_phrase_pronunciations returned
    todo,                   \* get_phrases: the pronunciations still to visit
    pronunciation,          \* get_phrases: the pronunciation being visited
    parts,                  \* get_phrases: the partitions it was given
    phrases,                \* get_phrases: the phrases collected so far
    outcome,                \* what the caller of wordsmith got
    earlier                 \* an earlier search the caller kept: its words
                            \* and its outcome

vars == <<CMPD, CMPD_INVERTED, pc, words, word_pronunciations,
          phrase_pronunciations, todo, pronunciation, parts, phrases,
          outcome, earlier>>

\* nltk.word_tokenize(phrase.lower()): the tokenized phrases.
WordLists == UNION {[1..n -> Range(Vocabulary)] : n \in 0..MaxWords}

NoSearch == [kept |-> FALSE, words |-> <<>>, outcome |-> Returns(<<>>)]

Kept(ws, result) == [kept |-> TRUE, words |-> ws, outcome |-> result]

\* The module has been imported: CMPD is loaded and inverted, no search runs.
Init ==
    /\ CMPD \in Tables
    /\ CMPD_INVERTED = invert_CMPD(CMPD)
    /\ pc = "idle"
    /\ words = <<>>
    /\ word_pronunciations = <<>>
    /\ phrase_pronunciations = <<>>
    /\ todo = <<>>
    /\ pronunciation = <<>>
    /\ parts = <<>>
    /\ phrases = <<>>
    /\ outcome = Returns(<<>>)
    /\ earlier = NoSearch

(* ------------------------------ wordsmith ------------------------------ *)

\* A search starts: wordsmith(phrase) up to words = nltk.word_tokenize(phrase).
Call ==
    /\ pc = "idle"
    /\ \E ws \in WordLists : words' = ws
    /\ pc' = "get_word_pronunciations"
    /\ UNCHANGED <<CMPD, CMPD_INVERTED, word_pronunciations,
                   phrase_pronunciations, todo, pronunciation, parts, phrases,
                   outcome, earlier>>

\* A later search: the caller keeps the outcome of the search that ended, or
\* the one it kept before, and calls wordsmith again with fresh locals.
CallAgain ==
    /\ pc \in {"returned", "raised"}
    /\ \E ws \in WordLists : words' = ws
    /\ earlier' \in {earlier, Kept(words, outcome)}
    /\ pc' = "get_word_pronunciations"
    /\ word_pronunciations' = <<>>
    /\ phrase_pronunciations' = <<>>
    /\ todo' = <<>>
    /\ pronunciation' = <<>>
    /\ parts' = <<>>
    /\ phrases' = <<>>
    /\ outcome' = Returns(<<>>)
    /\ UNCHANGED <<CMPD, CMPD_INVERTED>>

\* word_pronunciations = get_word_pronunciations(words)
GetWordPronunciations ==
    /\ pc = "get_word_pronunciations"
    /\ LET got == get_word_pronunciations(words, CMPD)
       IN  /\ ~got.raised
           /\ word_pronunciations' = got.value
    /\ pc' = "get_phrase_pronunciations"
    /\ UNCHANGED <<CMPD, CMPD_INVERTED, words, phrase_pronunciations, todo,
                   pronunciation, parts, phrases, outcome, earlier>>

\* get_word_pronunciations raises KeyError: nothing in wordsmith catches it.
RaiseKeyError ==
    /\ pc = "get_word_pronunciations"
    /\ get_word_pronunciations(words, CMPD).raised
    /\ outcome' = KeyError
    /\ pc' = "raised"
    /\ UNCHANGED <<CMPD, CMPD_INVERTED, words, word_pronunciations,
                   phrase_pronunciations, todo, pronunciation, parts, phrases,
                   earlier>>

\* The wrong body: flatten_combo extends the first pronunciation of the
\* combination in place, and that list is the table's own.
GetPhrasePronunciations_in_place ==
    /\ pc = "get_phrase_pronunciations"
    /\ phrase_pronunciations' = get_phrase_pronunciations(word_pronunciations)
    /\ CMPD' = IF words = <<>> THEN CMPD
               ELSE [CMPD EXCEPT ![words[1]][1] =
                        get_phrase_pronunciations(word_pronunciations)[1]]
    /\ pc' = "get_phrases"
    /\ UNCHANGED <<CMPD_INVERTED, words, word_pronunciations, todo,
                   pronunciation, parts, phrases, outcome, earlier>>

\* phrase_pronunciations = get_phrase_pronunciations(word_pronunciations)
GetPhrasePronunciations ==
    /\ pc = "get_phrase_pronunciations"
    /\ phrase_pronunciations' = get_phrase_pronunciations(word_pronunciations)
    /\ pc' = "get_phrases"
    /\ UNCHANGED <<CMPD, CMPD_INVERTED, words, word_pronunciations, todo,
                   pronunciation, parts, phrases, outcome, earlier>>

\* get_phrases(phrase_pronunciations) is entered: phrases = [], and the loop
\* over the pronunciations starts.
GetPhrases ==
    /\ pc = "get_phrases"
    /\ phrases' = <<>>
    /\ todo' = phrase_pronunciations
    /\ pc' = "for_pronunciation"
    /\ UNCHANGED <<CMPD, CMPD_INVERTED, words, word_pronunciations,
                   phrase_pronunciations, pronunciation, parts, outcome,
                   earlier>>

\* One pass of the outer loop: the next pronunciation is partitioned and
\* every partition is turned into phrases.
ForPronunciation ==
    /\ pc = "for_pronunciation"
    /\ todo # <<>>
    /\ pronunciation' = Head(todo)
    /\ todo' = Tail(todo)
    /\ parts' = partitions(Head(todo))
    /\ phrases' = for_part(phrases, partitions(Head(todo)), CMPD_INVERTED)
    /\ UNCHANGED <<CMPD, CMPD_INVERTED, pc, words, word_pronunciations,
                   phrase_pronunciations, outcome, earlier>>

\* The outer loop is exhausted: get_phrases returns phrases to wordsmith.
GetPhrasesReturn ==
    /\ pc = "for_pronunciation"
    /\ todo = <<>>
    /\ pc' = "return"
    /\ UNCHANGED <<CMPD, CMPD_INVERTED, words, word_pronunciations,
                   phrase_pronunciations, todo, pronunciation, parts, phrases,
                   outcome, earlier>>

\* return phrases
Return ==
    /\ pc = "return"
    /\ outcome' = Returns(phrases)
    /\ pc' = "returned"
    /\ UNCHANGED <<CMPD, CMPD_INVERTED, words, word_pronunciations,
                   phrase_pronunciations, todo, pronunciation, parts, phrases,
                   earlier>>

Next ==
    \/ Call
    \/ GetWordPronunciations
    \/ RaiseKeyError
    \/ GetPhrasePronunciations
    \/ GetPhrases
    \/ ForPronunciation
    \/ GetPhrasesReturn
    \/ Return

\* One run of the program: the module is imported and one phrase is searched.
Spec == Init /\ [][Next]_vars

\* A caller that imports the module and searches any number of phrases.
InitRepeat ==
    /\ Init
    /\ CMPD \in TablesFrom(1, MaxRepeatTablePhonemes)

NextRepeat == Next \/ CallAgain

SpecRepeat == InitRepeat /\ [][NextRepeat]_vars

(* ------------------------------- claims -------------------------------- *)

\* The words of the table.
TableWords == DOMAIN CMPD

\* Every word of the running search has an entry in the table.
AllWordsKnown == \A i \in DOMAIN words : words[i] \in TableWords

\* The search has collected every phrase.
Collected == pc \in {"return", "returned"}

\* The outer loop of get_phrases has just visited a pronunciation.
Visited == pc = "for_pronunciation" /\ parts # <<>>

RECURSIVE Pow2(_)
Pow2(n) == IF n = 0 THEN 1 ELSE 2 * Pow2(n - 1)

RECURSIVE Choices(_)
\* One index into every list of the sequence lists.
Choices(lists) ==
    IF lists = <<>> THEN {<<>>}
    ELSE {<<i>> \o c : i \in 1..Len(Head(lists)), c \in Choices(Tail(lists))}

\* C9: after invert_CMPD, a word W is in the bucket of a pronunciation P as
\* many times as P is among W's pronunciations in the table (so W is in the
\* bucket iff P is one of its pronunciations, and every pair of the table was
\* appended exactly once), and no key has an empty bucket.
C9_InvertedIndexMatchesTable ==
    /\ \A P \in DOMAIN CMPD_INVERTED :
          /\ CMPD_INVERTED[P] # <<>>
          /\ Range(CMPD_INVERTED[P]) \subseteq TableWords
    /\ \A W \in TableWords :
          \A P \in DOMAIN CMPD_INVERTED \cup Range(CMPD[W]) :
             Count(W, Get(CMPD_INVERTED, P)) = Count(P, CMPD[W])

\* A bucket shared by two words while some word has two pronunciations.
C9_Witness ==
    /\ \E P \in DOMAIN CMPD_INVERTED : Cardinality(Range(CMPD_INVERTED[P])) >= 2
    /\ \E W \in TableWords : Cardinality(Range(CMPD[W])) >= 2

\* C7: get_phrase_pronunciations returns as many pronunciations as the
\* product of the per-word counts, one per combination of one pronunciation
\* per word, each the concatenation of the chosen ones in word order.
C7_ExpanderIsCrossProduct ==
    pc = "get_phrases" =>
       LET all == Choices(word_pronunciations)
           chosen == [c \in all |->
                        Concat([i \in DOMAIN word_pronunciations |->
                                  word_pronunciations[i][c[i]]])]
       IN  /\ Len(phrase_pronunciations) =
                 Product([i \in DOMAIN word_pronunciations |->
                            Len(word_pronunciations[i])])
           /\ \A p \in {chosen[c] : c \in all} \cup Range(phrase_pronunciations) :
                 Count(p, phrase_pronunciations) =
                    Cardinality({c \in all : chosen[c] = p})

\* Word A with two pronunciations and word B with one give exactly two.
C7_Witness ==
    /\ pc = "get_phrases"
    /\ Len(word_pronunciations) = 2
    /\ Cardinality(Range(word_pronunciations[1])) = 2
    /\ Len(word_pronunciations[2]) = 1
    /\ Len(phrase_pronunciations) = 2

\* The partitions of the visited pronunciation are 2^(n-1) many, pairwise
\* distinct, made of nonempty blocks, and concatenate back to it.
PartitionsAreTheCompositions ==
    /\ 2 * Len(parts) = Pow2(Len(pronunciation))
    /\ Cardinality(Range(parts)) = Len(parts)
    /\ \A k \in DOMAIN parts :
          /\ \A b \in DOMAIN parts[k] : parts[k][b] # <<>>
          /\ Concat(parts[k]) = pronunciation

\* C6 as claimed: for every phoneme sequence get_phrases visits, whatever its
\* length n, partitions yields exactly 2^(n-1) pairwise distinct partitions
\* of nonempty contiguous blocks that concatenate back to the sequence.
C6_AsClaimed == Visited => PartitionsAreTheCompositions

\* C6 amended: the same for every phoneme sequence of length n >= 1.
C6_PartitionsOfNonEmpty ==
    (Visited /\ pronunciation # <<>>) => PartitionsAreTheCompositions

\* A pronunciation of four phonemes has been partitioned.
C6_Witness == Visited /\ Len(pronunciation) >= 4 /\ Len(parts) >= 8

(* The word sequences that sound like the phrase, from the table alone. *)

RECURSIVE Spellings(_)
\* The word sequences w1..wk for which some choice of one table pronunciation
\* per word concatenates to t: a first word one of whose pronunciations is a
\* prefix of t, then a spelling of the rest.
Spellings(t) ==
    IF t = <<>> THEN {<<>>}
    ELSE UNION {{<<x[1]>> \o r : r \in Spellings(SubSeq(t, x[2] + 1, Len(t)))} :
                x \in {y \in TableWords \X (1..Len(t)) :
                         SubSeq(t, 1, y[2]) \in Range(CMPD[y[1]])}}

\* The whole-phrase pronunciations of the input: one table pronunciation per
\* word, concatenated in word order.
InputPronunciations ==
    LET lists == [i \in DOMAIN words |-> CMPD[words[i]]]
    IN  {Concat([i \in DOMAIN words |-> lists[i][c[i]]]) : c \in Choices(lists)}

\* The word sequences of at least one word that sound like the input.
Homophones == UNION {Spellings(t) \ {<<>>} : t \in InputPronunciations}

\* C1 as claimed: whenever every word of the list has an entry, the result
\* contains the words joined by single spaces.
C1_AsClaimed ==
    (pc \in {"returned", "raised"} /\ AllWordsKnown) =>
       /\ pc = "returned"
       /\ join(words) \in Range(outcome.value)

\* C1 amended: whenever the list has at least one word and every word has an
\* entry, the result contains the words joined by single spaces.
C1_ResultContainsOriginal ==
    (pc \in {"returned", "raised"} /\ AllWordsKnown /\ words # <<>>) =>
       /\ pc = "returned"
       /\ join(words) \in Range(outcome.value)

\* A two-word phrase came back among several phrases.
C1_Witness ==
    /\ pc = "returned"
    /\ Len(words) = 2
    /\ Len(outcome.value) >= 2
    /\ outcome.value[1] # join(words)

\* C2: every phrase of the result is the single-space join of a word sequence
\* of at least one word that has a choice of table pronunciations whose
\* concatenation is one of the input's whole-phrase pronunciations.
C2_Soundness ==
    pc = "returned" =>
       Range(outcome.value) \subseteq {join(ws) : ws \in Homophones}

\* A result holding a phrase other than the input's.
C2_Witness ==
    /\ pc = "returned"
    /\ \E k \in DOMAIN outcome.value : outcome.value[k] # join(words)

\* C3: every word sequence of at least one word that has a choice of table
\* pronunciations whose concatenation is one of the input's whole-phrase
\* pronunciations is in the result, joined by single spaces.
C3_Completeness ==
    pc = "returned" =>
       \A ws \in Homophones : join(ws) \in Range(outcome.value)

\* A phrase re-segmented across the boundary of the two input words: the first
\* word of a two-word homophone is pronounced shorter than the input's first.
C3_Witness ==
    /\ pc = "returned"
    /\ Len(words) = 2
    /\ \E ws \in Homophones :
          /\ Len(ws) = 2
          /\ \A p \in Range(CMPD[ws[1]]), q \in Range(CMPD[words[1]]) :
                Len(p) < Len(q)
          /\ join(ws) \in Range(outcome.value)

\* C4: once a search has looked its words up and one of them has no entry, it
\* has raised KeyError and nothing else: no pronunciations were expanded, no
\* pronunciation partitioned, no phrase collected.
C4_UnknownWordFailsWholeSearch ==
    (~AllWordsKnown /\ pc # "get_word_pronunciations") =>
       /\ pc = "raised"
       /\ outcome = KeyError
       /\ word_pronunciations = <<>>
       /\ phrase_pronunciations = <<>>
       /\ parts = <<>>
       /\ phrases = <<>>

\* The second word is unknown, the first one resolves.
C4_Witness ==
    /\ pc = "raised"
    /\ Len(words) = 2
    /\ words[1] \in TableWords
    /\ words[2] \notin TableWords

\* Every block of the partition is a key of the index.
Matches(part) == \A b \in DOMAIN part : part[b] \in DOMAIN CMPD_INVERTED

\* What the partitions of a pronunciation give when the ones with a missing
\* block are left out of the enumeration.
Contribution(pron) ==
    LET matching == SelectSeq(partitions(pron), Matches)
    IN  Concat([k \in DOMAIN matching |->
                  part_to_phrases(matching[k], CMPD_INVERTED).value])

\* C5: a partition with a block missing from the index adds no phrase and
\* raises nothing to the caller: the phrases collected are those of the other
\* partitions of every pronunciation visited, as if the partition had not
\* been met; and a search whose words are all known does not raise.
C5_MissingBlockIsSkipped ==
    /\ pc = "for_pronunciation" =>
          phrases = Concat([v \in 1..(Len(phrase_pronunciations) - Len(todo)) |->
                              Contribution(phrase_pronunciations[v])])
    /\ pc = "returned" => outcome = Returns(phrases)
    /\ pc = "raised" => ~AllWordsKnown

\* A partition whose first block matched and a later one did not was met
\* before a partition that matched.
C5_Witness ==
    /\ Collected
    /\ phrases # <<>>
    /\ \E j, k \in DOMAIN parts :
          /\ j < k
          /\ ~Matches(parts[j])
          /\ parts[j][1] \in DOMAIN CMPD_INVERTED
          /\ Matches(parts[k])

\* The buckets of the blocks of a partition.
Buckets(part) == [b \in DOMAIN part |-> CMPD_INVERTED[part[b]]]

\* The partitions of the variant (whole-phrase pronunciation) v whose every
\* block is in the index.
Emitting(v) == SelectSeq(partitions(phrase_pronunciations[v]), Matches)

\* Every emission: a variant, a partition of it whose blocks are all in the
\* index, and one word of the bucket of every block.
Emissions ==
    UNION {UNION {{<<v, k, c>> : c \in Choices(Buckets(Emitting(v)[k]))} :
                  k \in DOMAIN Emitting(v)} :
           v \in DOMAIN phrase_pronunciations}

C8_SameQuerySameResult ==
    (pc \in {"returned", "raised"} /\ earlier.kept /\ earlier.words = words) =>
       /\ outcome.raised = earlier.outcome.raised
       /\ \A phrase \in Range(outcome.value) \cup Range(earlier.outcome.value) :
             Count(phrase, outcome.value) = Count(phrase, earlier.outcome.value)

\* A two-word phrase searched again returned its phrases again.
C8_Witness ==
    /\ pc = "returned"
    /\ earlier.kept
    /\ earlier.words = words
    /\ Len(words) = 2
    /\ outcome.value # <<>>

====
